---- MODULE Spec2Model ----
(***************************************************************************)
(* Model of the off-chain order book of Octavium DSE                       *)
(* (packages/octavium/src/off-chain_book/book.rs).                         *)
(*                                                                         *)
(* The book holds two BTreeMap<u128, Order>, bids and asks, both keyed by  *)
(* the order_id the caller put in the Order.  match_order takes the first  *)
(* key of asks for a bid taker and the last key of bids for an ask taker.  *)
(* place_order matches a clone of the order and then inserts the order it  *)
(* was given.  cancel_order removes a key from the stated side.            *)
(*                                                                         *)
(* u64 values are held as integers; a value below zero stands for the      *)
(* wrapped result 2^64 + v of a u64 subtraction (release build).           *)
(***************************************************************************)
EXTENDS Integers, Sequences, FiniteSets, TLC

\* ---- bounds of the model ------------------------------------------------
MaxId == 2
MaxPrice == 2
MaxQty == 2
MaxInFilled == 1
MaxTime == 1
MaxCalls == 3

\* ---- program constants --------------------------------------------------
MAX_FILLS == 100

OrderIds == 1..MaxId
Prices == 0..MaxPrice
Quantities == 0..MaxQty
InFilled == 0..MaxInFilled
Times == 0..MaxTime

\* struct Order (owner, an opaque string the book never reads, is left out)
Order == [order_id : OrderIds, price : Prices, quantity : Quantities,
          filled_quantity : InFilled, expire_timestamp : Times,
          is_bid : BOOLEAN]

NoOrder == [order_id |-> 0, price |-> 0, quantity |-> 0, filled_quantity |-> 0,
            expire_timestamp |-> 0, is_bid |-> FALSE]

VARIABLES
    bids,               \* Book.bids : order_id -> Order
    asks,               \* Book.asks : order_id -> Order
    next_bid_order_id,  \* Book.next_bid_order_id, as the distance below u64::MAX
    next_ask_order_id,  \* Book.next_ask_order_id
    call,               \* the last call: [name, order, timestamp]
    outcome,            \* "ok", or "panic" when the call panicked
    fills,              \* the Vec<Fill> the last call returned
    taker_out,          \* match_order's taker_order when its loop ended
    cancelled,          \* what the last cancel_order returned (<<>> is None)
    pre,                \* bids, asks and arrival before the last call
    arrival,            \* per side, the resting ids in order of admission
    acct,               \* per side and resting id, the fills of that entry
    ncalls              \* number of calls made

vars == <<bids, asks, next_bid_order_id, next_ask_order_id,
          call, outcome, fills, taker_out, cancelled, pre,
          arrival, acct, ncalls>>

\* ---- impl Order ---------------------------------------------------------
remaining_quantity(o) == o.quantity - o.filled_quantity

\* is_filled with == for >=
is_filled_exact(o) == o.filled_quantity = o.quantity

is_filled(o) == o.filled_quantity >= o.quantity

\* u64 reading of a value held as an integer
U64IsZero(v) == v = 0
U64Min(a, b) ==
    IF a < 0 /\ b < 0 THEN (IF a <= b THEN a ELSE b)
    ELSE IF a < 0 THEN b
    ELSE IF b < 0 THEN a
    ELSE IF a <= b THEN a ELSE b

\* ---- BTreeMap -----------------------------------------------------------
EmptyMap == [k \in {} |-> NoOrder]
MapRemove(m, k) == [x \in DOMAIN m \ {k} |-> m[x]]
MapInsert(m, k, v) == [x \in DOMAIN m \cup {k} |-> IF x = k THEN v ELSE m[x]]
first_key(m) == CHOOSE k \in DOMAIN m : \A x \in DOMAIN m : k <= x
last_key(m) == CHOOSE k \in DOMAIN m : \A x \in DOMAIN m : k >= x

\* prices_match with the two comparisons exchanged
prices_match_swapped(taker, maker) ==
    IF taker.is_bid THEN taker.price <= maker.price
    ELSE taker.price >= maker.price

\* ---- Book::prices_match -------------------------------------------------
prices_match(taker, maker) ==
    IF taker.is_bid THEN taker.price >= maker.price
    ELSE taker.price <= maker.price

\* the key match_order takes as the best resting order of book_side
best_order_id(book_side, taker_is_bid) ==
    IF taker_is_bid THEN first_key(book_side) ELSE last_key(book_side)

\* the Fill priced at the taker's price
make_fill_at_taker_price(order_id, taker_order, maker_order, fill_qty, timestamp) ==
    [maker_order_id |-> order_id,
     taker_order_id |-> taker_order.order_id,
     base_quantity |-> fill_qty,
     quote_quantity |-> fill_qty * taker_order.price,
     timestamp |-> timestamp]

\* the Fill match_order builds
make_fill(order_id, taker_order, maker_order, fill_qty, timestamp) ==
    [maker_order_id |-> order_id,
     taker_order_id |-> taker_order.order_id,
     base_quantity |-> fill_qty,
     quote_quantity |-> fill_qty * maker_order.price,
     timestamp |-> timestamp]

fill_quantity(taker_order, maker_order) ==
    U64Min(remaining_quantity(taker_order), remaining_quantity(maker_order))

\* the expiry test with <= for <
expired_inclusive(maker_order, timestamp) == maker_order.expire_timestamp <= timestamp

\* the expiry test of match_order
expired(maker_order, timestamp) == maker_order.expire_timestamp < timestamp

\* the cap test with <= for <
under_cap_inclusive(fs) == Len(fs) <= MAX_FILLS

\* the cap test of the loop: fills.len() < MAX_FILLS
under_cap(fs) == Len(fs) < MAX_FILLS

\* the maker's side when a filled maker is left resting
maker_side_kept(book_side, order_id, maker2) ==
    [book_side EXCEPT ![order_id] = maker2]

\* the maker's side after a fill: a filled maker is removed, any other is
\* left with its new filled_quantity
maker_side_after(book_side, order_id, maker2) ==
    IF is_filled(maker2)
    THEN MapRemove(book_side, order_id)
    ELSE [book_side EXCEPT ![order_id] = maker2]

\* one pass through the body of the while loop of Book::match_order;
\* running is FALSE once the loop test failed or the body took a break
loop_body(st, timestamp) ==
    LET book_side == st.book_side
        taker_order == st.taker_order
        fs == st.fills
        stop == [st EXCEPT !.running = FALSE]
    IN
    IF ~(~U64IsZero(remaining_quantity(taker_order))
         /\ DOMAIN book_side # {}
         /\ under_cap(fs))
    THEN stop
    ELSE
      LET order_id == best_order_id(book_side, taker_order.is_bid)
          maker_order == book_side[order_id]
          fill_qty == fill_quantity(taker_order, maker_order)
          taker2 == [taker_order EXCEPT !.filled_quantity = @ + fill_qty]
          maker2 == [maker_order EXCEPT !.filled_quantity = @ + fill_qty]
          side2 == maker_side_after(book_side, order_id, maker2)
      IN
      IF expired(maker_order, timestamp)
      THEN [st EXCEPT !.book_side = MapRemove(book_side, order_id)]
      ELSE IF ~prices_match(taker_order, maker_order) THEN stop
      ELSE IF fill_qty = 0 THEN stop
      ELSE [book_side |-> side2,
            taker_order |-> taker2,
            fills |-> Append(fs, make_fill(order_id, taker_order, maker_order,
                                           fill_qty, timestamp)),
            running |-> TRUE]

\* at most n passes of the loop from st, the first half of them before the
\* second half
RECURSIVE passes(_, _, _)
passes(st, timestamp, n) ==
    IF ~st.running \/ n = 0 THEN st
    ELSE IF n = 1 THEN loop_body(st, timestamp)
    ELSE passes(passes(st, timestamp, n \div 2), timestamp, n - n \div 2)

\* the while loop of Book::match_order, on the opposite side of the taker:
\* a pass that goes on removes a resting order or pushes a fill, so the loop
\* ends within the number of passes given here
match_loop(book_side, taker_order, fs, timestamp) ==
    LET r == passes([book_side |-> book_side, taker_order |-> taker_order,
                     fills |-> fs, running |-> TRUE],
                    timestamp,
                    Cardinality(DOMAIN book_side) + MAX_FILLS + 2)
    IN [book_side |-> r.book_side, taker_order |-> r.taker_order, fills |-> r.fills]

\* Book::match_order: the book after the call, the fills and the taker
match_order(b, a, taker_order, timestamp) ==
    LET r == match_loop(IF taker_order.is_bid THEN a ELSE b, taker_order, <<>>, timestamp)
    IN [bids |-> IF taker_order.is_bid THEN b ELSE r.book_side,
        asks |-> IF taker_order.is_bid THEN r.book_side ELSE a,
        fills |-> r.fills,
        taker_order |-> r.taker_order]

\* the order place_order rests: the order as it was passed in
rested_order(order, matched_taker) == order

\* Book::place_order
place_order(b, a, order) ==
    LET m == match_order(b, a, order, order.expire_timestamp)
        o == rested_order(order, m.taker_order)
        rests == ~is_filled(order)
    IN [bids |-> IF rests /\ order.is_bid THEN MapInsert(m.bids, o.order_id, o) ELSE m.bids,
        asks |-> IF rests /\ ~order.is_bid THEN MapInsert(m.asks, o.order_id, o) ELSE m.asks,
        fills |-> m.fills,
        taker_order |-> m.taker_order,
        rests |-> rests]

\* cancel_order that removes the id from both sides
cancel_order_both_sides(b, a, order_id, is_bid) ==
    LET side == IF is_bid THEN b ELSE a
        found == order_id \in DOMAIN side
    IN [bids |-> MapRemove(b, order_id),
        asks |-> MapRemove(a, order_id),
        cancelled |-> IF found THEN <<side[order_id]>> ELSE <<>>]

\* Book::cancel_order
cancel_order(b, a, order_id, is_bid) ==
    LET side == IF is_bid THEN b ELSE a
        found == order_id \in DOMAIN side
    IN [bids |-> IF is_bid THEN MapRemove(b, order_id) ELSE b,
        asks |-> IF is_bid THEN a ELSE MapRemove(a, order_id),
        cancelled |-> IF found THEN <<side[order_id]>> ELSE <<>>]

\* remaining_quantity of the taker underflows u64 at the first loop test
taker_underflows(order) == order.filled_quantity > order.quantity

\* ---- bookkeeping of the calls (observes the book, never read by it) -----
RECURSIVE base_sum(_)
base_sum(fs) == IF fs = <<>> THEN 0 ELSE Head(fs).base_quantity + base_sum(Tail(fs))

maker_fills(fs, id) == SelectSeq(fs, LAMBDA f : f.maker_order_id = id)

\* the resting ids of side, in order of admission, after a call left `side`
\* and admitted `admitted` (a set of at most one id) last
arrival_after(seq, side, admitted) ==
    LET kept == SelectSeq(seq, LAMBDA k : k \in DOMAIN side /\ k \notin admitted)
    IN IF admitted = {} THEN kept
       ELSE kept \o <<CHOOSE k \in admitted : TRUE>>

NoAcct == [taker_total |-> 0, maker_total |-> 0]

\* the fills of each entry that still rests on `side` after a call that
\* returned fs with the makers on this side (maker_side) or not
acct_after(old, side, fs, maker_side, admitted) ==
    [k \in DOMAIN side |->
        IF k \in admitted
        THEN [taker_total |-> base_sum(fs), maker_total |-> 0]
        ELSE IF maker_side
        THEN [old[k] EXCEPT !.maker_total = @ + base_sum(maker_fills(fs, k))]
        ELSE old[k]]

Snapshot == [bids |-> bids, asks |-> asks, arrival |-> arrival]

NoCall == [name |-> "none", order |-> NoOrder, timestamp |-> 0]

\* the caller holds no result of an earlier call: the book is called from
\* one thread, and a call returns before the next one is made
Idle == call = NoCall

\* ---- the state machine --------------------------------------------------
\* Book::new
Init ==
    /\ bids = EmptyMap
    /\ asks = EmptyMap
    /\ next_bid_order_id = 0
    /\ next_ask_order_id = 1
    /\ call = NoCall
    /\ outcome = "ok"
    /\ fills = <<>>
    /\ taker_out = NoOrder
    /\ cancelled = <<>>
    /\ pre = [bids |-> EmptyMap, asks |-> EmptyMap,
              arrival |-> [s \in BOOLEAN |-> <<>>]]
    /\ arrival = [s \in BOOLEAN |-> <<>>]
    /\ acct = [s \in BOOLEAN |-> [k \in {} |-> NoAcct]]
    /\ ncalls = 0

\* a call that panics on the u64 underflow of the taker's remaining_quantity,
\* at the first test of the loop of match_order, before the book is touched
Panics(name, order, timestamp) ==
    /\ call' = [name |-> name, order |-> order, timestamp |-> timestamp]
    /\ outcome' = "panic"
    /\ fills' = <<>>
    /\ taker_out' = order
    /\ cancelled' = <<>>
    /\ pre' = Snapshot
    /\ ncalls' = ncalls + 1
    /\ UNCHANGED <<bids, asks, next_bid_order_id, next_ask_order_id,
                   arrival, acct>>

\* what a call that returned leaves behind; r is the result of the call,
\* admitted the set holding the id place_order inserted (or empty)
Returns(name, order, timestamp, r, admitted) ==
    /\ call' = [name |-> name, order |-> order, timestamp |-> timestamp]
    /\ outcome' = "ok"
    /\ bids' = r.bids
    /\ asks' = r.asks
    /\ fills' = r.fills
    /\ taker_out' = r.taker_order
    /\ cancelled' = <<>>
    /\ pre' = Snapshot
    /\ arrival' = [s \in BOOLEAN |->
                     arrival_after(arrival[s], IF s THEN r.bids ELSE r.asks,
                                   IF s = order.is_bid THEN admitted ELSE {})]
    /\ acct' = [s \in BOOLEAN |->
                  acct_after(acct[s], IF s THEN r.bids ELSE r.asks, r.fills,
                             s # order.is_bid,
                             IF s = order.is_bid THEN admitted ELSE {})]
    /\ ncalls' = ncalls + 1
    /\ UNCHANGED <<next_bid_order_id, next_ask_order_id>>

\* place_order(order) with order drawn from `orders`.  When the taker's
\* remaining_quantity underflows, a build with overflow checks panics and a
\* build without them wraps.
PlaceOrderOf(orders) ==
    \E order \in orders :
        /\ Idle
        /\ ncalls < MaxCalls
        /\ \/ /\ taker_underflows(order)
              /\ Panics("place_order", order, order.expire_timestamp)
           \/ \E r \in {place_order(bids, asks, order)} :
                 Returns("place_order", order, order.expire_timestamp, r,
                         IF r.rests THEN {order.order_id} ELSE {})

\* orders that pass the validation of the admission contract and come unfilled
ValidOrders == {o \in Order : o.price > 0 /\ o.quantity > 0 /\ o.filled_quantity = 0}

\* place_order of an arbitrary Order
PlaceOrder == PlaceOrderOf(Order)

\* place_order by a caller that passes valid, unfilled orders only
PlaceValidOrder == PlaceOrderOf(ValidOrders)

\* match_order(taker_order, timestamp) called on its own, as the tests do:
\* with a taker that has passed validation (price > 0, quantity > 0) and is
\* unfilled.  match_order never reads the taker's expire_timestamp: it is
\* u64::MAX in every test and held at MaxTime here.  (The matching of any
\* other taker is the first stage of PlaceOrder.)
Takers == {o \in ValidOrders : o.expire_timestamp = MaxTime}

MatchOrder ==
    \E order \in Takers, timestamp \in Times :
        /\ Idle
        /\ ncalls < MaxCalls
        /\ \E r \in {match_order(bids, asks, order, timestamp)} :
               Returns("match_order", order, timestamp, r, {})

CancelOrder ==
    \E order_id \in OrderIds, is_bid \in BOOLEAN :
        \E r \in {cancel_order(bids, asks, order_id, is_bid)} :
        LET key == [NoOrder EXCEPT !.order_id = order_id, !.is_bid = is_bid]
        IN /\ Idle
           /\ ncalls < MaxCalls
           /\ call' = [name |-> "cancel_order", order |-> key, timestamp |-> 0]
           /\ outcome' = "ok"
           /\ bids' = r.bids
           /\ asks' = r.asks
           /\ fills' = <<>>
           /\ taker_out' = NoOrder
           /\ cancelled' = r.cancelled
           /\ pre' = Snapshot
           /\ arrival' = [s \in BOOLEAN |->
                            arrival_after(arrival[s], IF s THEN r.bids ELSE r.asks, {})]
           /\ acct' = [s \in BOOLEAN |->
                         acct_after(acct[s], IF s THEN r.bids ELSE r.asks, <<>>,
                                    FALSE, {})]
           /\ ncalls' = ncalls + 1
           /\ UNCHANGED <<next_bid_order_id, next_ask_order_id>>

\* the caller takes what the call returned (the Vec<Fill> or the
\* Option<Order>), which the book does not retain
ReturnToCaller ==
    /\ ~Idle
    /\ call' = NoCall
    /\ outcome' = "ok"
    /\ fills' = <<>>
    /\ taker_out' = NoOrder
    /\ cancelled' = <<>>
    /\ pre' = Snapshot
    /\ UNCHANGED <<bids, asks, next_bid_order_id, next_ask_order_id,
                   arrival, acct, ncalls>>

Next == PlaceOrder \/ MatchOrder \/ CancelOrder \/ ReturnToCaller

Spec == Init /\ [][Next]_vars

\* the book under callers that never pass an invalid or pre-filled order
NextValid == PlaceValidOrder \/ MatchOrder \/ CancelOrder \/ ReturnToCaller

SpecValid == Init /\ [][NextValid]_vars

\* ---- a deep book ---------------------------------------------------------
\* A book that place_order calls have filled with more asks than one call
\* can fill: asks 1..DeepSize at price 1, of quantity 1 and never expiring,
\* but for the first, whose quantity and expiry vary.
DeepSize == MAX_FILLS + 2

DeepAsk(k, qty, exp) ==
    [order_id |-> k, price |-> 1, quantity |-> qty, filled_quantity |-> 0,
     expire_timestamp |-> exp, is_bid |-> FALSE]

InitDeep ==
    /\ \E qty \in 1..MaxQty, exp \in Times :
          asks = [k \in 1..DeepSize |->
                    IF k = 1 THEN DeepAsk(k, qty, exp) ELSE DeepAsk(k, 1, MaxTime)]
    /\ bids = EmptyMap
    /\ next_bid_order_id = 0
    /\ next_ask_order_id = 1
    /\ call = NoCall
    /\ outcome = "ok"
    /\ fills = <<>>
    /\ taker_out = NoOrder
    /\ cancelled = <<>>
    /\ arrival = [s \in BOOLEAN |-> IF s THEN <<>> ELSE [k \in 1..DeepSize |-> k]]
    /\ acct = [s \in BOOLEAN |->
                 IF s THEN [k \in {} |-> NoAcct] ELSE [k \in 1..DeepSize |-> NoAcct]]
    /\ pre = [bids |-> bids, asks |-> asks, arrival |-> arrival]
    /\ ncalls = 0

\* valid orders of a quantity around the fill cap
DeepTakers ==
    [order_id : OrderIds, price : 1..MaxPrice,
     quantity : {MAX_FILLS - 1, MAX_FILLS + 1}, filled_quantity : {0},
     expire_timestamp : Times, is_bid : BOOLEAN]

PlaceDeepOrder == PlaceOrderOf(DeepTakers)

NextDeep == PlaceDeepOrder \/ MatchOrder \/ CancelOrder \/ ReturnToCaller

SpecDeep == InitDeep /\ [][NextDeep]_vars

\* ---- the last call, as its caller sees it -------------------------------
\* the last call ran match_order to its end (alone or inside place_order)
Matched == call.name \in {"place_order", "match_order"} /\ outcome = "ok"
Placed == call.name = "place_order" /\ outcome = "ok"

Taker == call.order
\* the side the makers of the last call rested on, before and after it
PreOpposite == IF Taker.is_bid THEN pre.asks ELSE pre.bids
PostOpposite == IF Taker.is_bid THEN asks ELSE bids
PreOppositeArrival == pre.arrival[~Taker.is_bid]
\* the side of the taker after the call
PostOwn == IF Taker.is_bid THEN bids ELSE asks

Side(is_bid) == IF is_bid THEN bids ELSE asks

MakerOf(i) == PreOpposite[fills[i].maker_order_id]

Position(seq, k) == CHOOSE n \in 1..Len(seq) : seq[n] = k

\* ---- C1 -----------------------------------------------------------------
\* C1: within one match_order call the makers of successive fills have
\* non-decreasing price for a bid taker (asks are taken price ascending) and
\* non-increasing price for an ask taker (bids are taken price descending).
C1_PricePriority ==
    Matched =>
        \A i \in 1..(Len(fills) - 1) :
            IF Taker.is_bid
            THEN MakerOf(i).price <= MakerOf(i + 1).price
            ELSE MakerOf(i).price >= MakerOf(i + 1).price

\* ---- C2 -----------------------------------------------------------------
\* the order passed to the last place_order rests on its own side
TakerRests ==
    /\ Taker.order_id \in DOMAIN PostOwn
    /\ PostOwn[Taker.order_id].price = Taker.price
    /\ PostOwn[Taker.order_id].quantity = Taker.quantity
    /\ PostOwn[Taker.order_id].expire_timestamp = Taker.expire_timestamp

\* C2: after place_order(o) of a valid order o returned the fills F, o rests
\* on its own side iff the base quantities of F sum to less than o.quantity,
\* and then its remaining quantity is o.quantity minus that sum.
C2_ResidualRule ==
    (Placed /\ Taker \in ValidOrders) =>
        /\ TakerRests <=> base_sum(fills) < Taker.quantity
        /\ TakerRests =>
             PostOwn[Taker.order_id].quantity - PostOwn[Taker.order_id].filled_quantity
               = Taker.quantity - base_sum(fills)

\* ---- C3 -----------------------------------------------------------------
\* C3: place_order of an order with price = 0 or quantity = 0 is rejected
\* (it panics), leaves both sides of the book as they were and produces no fill.
C3_InvalidRejected ==
    (call.name = "place_order" /\ (Taker.price = 0 \/ Taker.quantity = 0)) =>
        /\ outcome = "panic"
        /\ bids = pre.bids
        /\ asks = pre.asks
        /\ fills = <<>>

\* ---- C4 -----------------------------------------------------------------
\* C4: among the unexpired resting orders of one side with equal price, the
\* one admitted earlier is the maker of a fill before any one admitted later.
C4_TimePriority ==
    Matched =>
        \A i \in 1..Len(fills) : \A k \in DOMAIN PreOpposite :
            ( /\ k # fills[i].maker_order_id
              /\ PreOpposite[k].price = MakerOf(i).price
              /\ PreOpposite[k].expire_timestamp >= call.timestamp
              /\ Position(PreOppositeArrival, k)
                   < Position(PreOppositeArrival, fills[i].maker_order_id) )
            => \E j \in 1..(i - 1) : fills[j].maker_order_id = k

C6_PriceCompatible ==
    Matched =>
        \A i \in 1..Len(fills) :
            IF Taker.is_bid
            THEN Taker.price >= MakerOf(i).price
            ELSE Taker.price <= MakerOf(i).price

\* a call that filled and then stopped with quantity left at a resting
\* order of the opposite side
C6_Witness ==
    /\ Matched
    /\ Len(fills) >= 1
    /\ taker_out.quantity - taker_out.filled_quantity > 0
    /\ \E k \in DOMAIN PostOpposite :
          /\ PostOpposite[k].expire_timestamp >= call.timestamp
          /\ IF Taker.is_bid THEN PostOpposite[k].price > Taker.price
             ELSE PostOpposite[k].price < Taker.price

\* ---- C7 -----------------------------------------------------------------
\* C7: every resting order on either side has 0 <= filled_quantity <= quantity.
C7_FilledWithinQuantity ==
    \A s \in BOOLEAN : \A k \in DOMAIN Side(s) :
        /\ 0 <= Side(s)[k].filled_quantity
        /\ Side(s)[k].filled_quantity <= Side(s)[k].quantity

\* an order that rests partially filled after fills as maker
C7_Witness ==
    \E s \in BOOLEAN : \E k \in DOMAIN Side(s) :
        /\ acct[s][k].maker_total > 0
        /\ Side(s)[k].filled_quantity > 0
        /\ Side(s)[k].filled_quantity < Side(s)[k].quantity

\* ---- C8 -----------------------------------------------------------------
\* C8: for a resting order that has acted as maker, the base quantities of
\* all fills that reference it sum to its filled_quantity.
C8_FillAccounting ==
    \A s \in BOOLEAN : \A k \in DOMAIN Side(s) :
        acct[s][k].maker_total > 0 =>
            acct[s][k].taker_total + acct[s][k].maker_total
              = Side(s)[k].filled_quantity

\* ---- C9 -----------------------------------------------------------------
\* C9: every order held on the bid or ask side has price > 0 and quantity > 0.
C9_RestingPositive ==
    \A s \in BOOLEAN : \A k \in DOMAIN Side(s) :
        Side(s)[k].price > 0 /\ Side(s)[k].quantity > 0

\* ---- C10 ----------------------------------------------------------------
\* the orders the last call removed from the opposite side
Removed == DOMAIN PreOpposite \ DOMAIN PostOpposite
Lapsed(o) == o.expire_timestamp < call.timestamp

\* C10: a resting order with expire_timestamp < now that match_order removes
\* has no fill, and no order with expire_timestamp < now is ever a maker; an
\* order with expire_timestamp >= now leaves the book only fully filled; and
\* matching goes on past an eviction: when the call ends under the fill cap
\* with quantity left, the best order left on the opposite side (if any) is
\* unexpired and not price-compatible.
C10_LazyExpiry ==
    Matched =>
        /\ \A i \in 1..Len(fills) : ~Lapsed(MakerOf(i))
        /\ \A k \in Removed :
              IF Lapsed(PreOpposite[k])
              THEN maker_fills(fills, k) = <<>>
              ELSE base_sum(maker_fills(fills, k))
                     = PreOpposite[k].quantity - PreOpposite[k].filled_quantity
        /\ ( /\ taker_out.quantity # taker_out.filled_quantity
             /\ Len(fills) < MAX_FILLS
             /\ DOMAIN PostOpposite # {} )
           => LET best == PostOpposite[IF Taker.is_bid
                                       THEN first_key(PostOpposite)
                                       ELSE last_key(PostOpposite)]
              IN /\ ~Lapsed(best)
                 /\ IF Taker.is_bid THEN Taker.price < best.price
                    ELSE Taker.price > best.price

\* a call that evicted an expired order and then filled against the next one
C10_Witness ==
    /\ Matched
    /\ \E k \in Removed : Lapsed(PreOpposite[k])
    /\ Len(fills) >= 1

\* ---- C11 ----------------------------------------------------------------
Cancelled == call.name = "cancel_order"
\* the stated side before the last call, and the other side then and now
PreOwn == IF Taker.is_bid THEN pre.bids ELSE pre.asks

\* C11: cancel_order(id, side) returns the order resting under id on the
\* stated side and removes it, or returns nothing and leaves that side as it
\* was; the opposite side is unchanged; a repeated cancel_order(id, side)
\* returns nothing and changes nothing.
C11_Cancel ==
    Cancelled =>
        /\ IF Taker.order_id \in DOMAIN PreOwn
           THEN /\ cancelled = <<PreOwn[Taker.order_id]>>
                /\ DOMAIN PostOwn = DOMAIN PreOwn \ {Taker.order_id}
           ELSE /\ cancelled = <<>>
                /\ DOMAIN PostOwn = DOMAIN PreOwn
        /\ \A k \in DOMAIN PostOwn : PostOwn[k] = PreOwn[k]
        /\ PostOpposite = PreOpposite
        /\ LET again == cancel_order(bids, asks, Taker.order_id, Taker.is_bid)
           IN /\ again.cancelled = <<>>
              /\ again.bids = bids
              /\ again.asks = asks

\* a cancel that found its order while the opposite side holds the same id
C11_Witness ==
    /\ Cancelled
    /\ cancelled # <<>>
    /\ Taker.order_id \in DOMAIN PostOpposite

\* ---- C12 ----------------------------------------------------------------
\* C12: a match_order call, alone or inside place_order, returns at most
\* MAX_FILLS fills.
C12_FillCap == Matched => Len(fills) <= MAX_FILLS

\* a call the cap stopped: MAX_FILLS fills, quantity left, and an unexpired
\* compatible order still resting on the opposite side
C12_Witness ==
    /\ Matched
    /\ Len(fills) = MAX_FILLS
    /\ taker_out.quantity - taker_out.filled_quantity > 0
    /\ \E k \in DOMAIN PostOpposite :
          /\ PostOpposite[k].expire_timestamp >= call.timestamp
          /\ IF Taker.is_bid THEN PostOpposite[k].price <= Taker.price
             ELSE PostOpposite[k].price >= Taker.price

\* ---- C13 ----------------------------------------------------------------
\* C13: every resting order sits under an identifier the book's allocator of
\* its side produced: an ask under a key that next_ask_order_id (counting up
\* from 1) has already passed, a bid only once next_bid_order_id has moved
\* down from u64::MAX; so the counters advance on every admission.
C13_AllocatedIds ==
    /\ \A k \in DOMAIN asks : k >= 1 /\ k < next_ask_order_id
    /\ DOMAIN bids # {} => next_bid_order_id > 0

\* ---- C14 ----------------------------------------------------------------
\* the scaling factor the tests divide the quote by
FLOAT_SCALING == 1000000000

\* C14: a fill's quote_quantity is base_quantity * the maker's price scaled
\* down by FLOAT_SCALING, as the tests assert it.
C14_QuoteScaled ==
    Matched =>
        \A i \in 1..Len(fills) :
            fills[i].quote_quantity
              = (fills[i].base_quantity * MakerOf(i).price) \div FLOAT_SCALING

\* ---- C15 ----------------------------------------------------------------
\* C15: when match_order returns fewer than MAX_FILLS fills and leaves the
\* taker with remaining quantity, no unexpired order resting on the opposite
\* side is price-compatible with the taker.
C15_MatchingComplete ==
    ( /\ Matched
      /\ Len(fills) < MAX_FILLS
      /\ taker_out.quantity - taker_out.filled_quantity > 0 )
    => \A k \in DOMAIN PostOpposite :
          \/ PostOpposite[k].expire_timestamp < call.timestamp
          \/ IF Taker.is_bid
             THEN Taker.price < PostOpposite[k].price
             ELSE Taker.price > PostOpposite[k].price

\* ---- C16 ----------------------------------------------------------------
\* what the fills of the last call traded against the maker resting under k
MakerTraded(k) == base_sum(maker_fills(fills, k))

\* C16: a maker whose filled_quantity reached its quantity in the last call
\* is gone from the book, a maker filled in part rests as it was but for its
\* filled_quantity, which grew by the traded amount; and in every state every
\* resting order has quantity - filled_quantity > 0.
C16_MakerRemoval ==
    /\ \A s \in BOOLEAN : \A k \in DOMAIN Side(s) :
          Side(s)[k].quantity - Side(s)[k].filled_quantity > 0
    /\ Matched =>
         \A k \in DOMAIN PreOpposite :
            MakerTraded(k) > 0 =>
               IF PreOpposite[k].filled_quantity + MakerTraded(k) >= PreOpposite[k].quantity
               THEN k \notin DOMAIN PostOpposite
               ELSE /\ k \in DOMAIN PostOpposite
                    /\ PostOpposite[k] =
                         [PreOpposite[k] EXCEPT !.filled_quantity = @ + MakerTraded(k)]

\* one call filled a maker whole, which left, and another in part, which stays
C16_Witness ==
    /\ Matched
    /\ \E k1 \in DOMAIN PreOpposite, k2 \in DOMAIN PostOpposite :
          /\ MakerTraded(k1) > 0
          /\ k1 \notin DOMAIN PostOpposite
          /\ MakerTraded(k2) > 0
          /\ PostOpposite[k2].filled_quantity > 0
          /\ PostOpposite[k2].filled_quantity < PostOpposite[k2].quantity

\* ---- C17 ----------------------------------------------------------------
\* filled_quantity of every entry that rests under the same id before and
\* after a step has not gone down
FilledNotDecreased(before, after) ==
    \A k \in DOMAIN before \cap DOMAIN after :
        after[k].filled_quantity >= before[k].filled_quantity

\* C17: from one state to the next, the filled_quantity of the order resting
\* under a given side and order_id never decreases while that entry stays in
\* the book.
C17_FilledMonotone ==
    [][FilledNotDecreased(bids, bids') /\ FilledNotDecreased(asks, asks')]_vars

\* ---- C18 ----------------------------------------------------------------
\* C18: for every resting order, the base quantities of the fills that name
\* it, as taker when it was placed and as maker since, sum to at most its
\* quantity.
C18_NoOverfill ==
    \A s \in BOOLEAN : \A k \in DOMAIN Side(s) :
        acct[s][k].taker_total + acct[s][k].maker_total <= Side(s)[k].quantity

\* ---- C19 ----------------------------------------------------------------
\* C19: after a place_order call that returned fewer than MAX_FILLS fills, no
\* resting bid and resting ask that are both unexpired at the clock of that
\* call have bid price >= ask price.
C19_Uncrossed ==
    (Placed /\ Len(fills) < MAX_FILLS) =>
        \A kb \in DOMAIN bids : \A ka \in DOMAIN asks :
            \/ bids[kb].expire_timestamp < call.timestamp
            \/ asks[ka].expire_timestamp < call.timestamp
            \/ bids[kb].price < asks[ka].price

\* ---- C20 ----------------------------------------------------------------
\* C20: after place_order(o), every order that rested on o's side before the
\* call rests there still, with the same price, quantity and
\* filled_quantity, also when o.order_id is the id of one of them.
C20_OwnSideKept ==
    Placed =>
        \A k \in DOMAIN PreOwn :
            /\ k \in DOMAIN PostOwn
            /\ PostOwn[k].price = PreOwn[k].price
            /\ PostOwn[k].quantity = PreOwn[k].quantity
            /\ PostOwn[k].filled_quantity = PreOwn[k].filled_quantity
====
